---- MODULE Spec2Model ----
\* A model of the RIIGID session object (riigid/riigid.py): the three
\* configuration setters, run(), and the persistence of the optimization
\* progress.  The optimizer's iteration loop, the convergence criteria and the
\* stdout-redirecting decorator live in other modules of the package
\* (riigid.optimizer, riigid.convergence, riigid.library.misc); they are
\* modelled after the specification (sections 4.3, 4.4, 5, 7 and 9).  One
\* session runs its optimizer at most once.
EXTENDS Integers, Sequences, FiniteSets, TLC

VARIABLES
    calculator,             \* RIIGID.calculator
    optimizer,              \* RIIGID.optimizer
    convergence_criterion,  \* RIIGID.convergence_criterion
    nFragments,             \* fragments defined on RIIGID.start_structure
    out_log,                \* the method that wrote the last lines of out_file
    pc,                     \* where the session's single thread of control is
    saveStage,              \* next writer of save_optimization_progress (1..4)
    saveCtx,                \* who called save_optimization_progress
    optState,               \* state of the optimizer's state machine
    optimization_history,   \* optimizer.optimization_history
    iteration,              \* completed iterations of the optimizer
    calcCalls,              \* number of calculator invocations so far
    files,                  \* the four persisted artifacts
    openHandles,            \* file handles opened by a writer and not closed
    raised,                 \* the exception the last API call ended with
    lastCall,               \* the last API call made by the user
    atRun,                  \* optimizer/criterion as run() found them when it went on
    optRunArgs,             \* the arguments optimizer.run was started with
    calcResult,             \* outcome of the last calculator invocation
    failedWrite             \* the artifact write that failed, if any

vars == << calculator, optimizer, convergence_criterion, nFragments, out_log,
           pc, saveStage, saveCtx, optState, optimization_history, iteration,
           calcCalls, files, openHandles, raised, lastCall, atRun, optRunArgs,
           calcResult, failedWrite >>

config == << calculator, optimizer, convergence_criterion >>
runVars == << optState, optimization_history, iteration, calcCalls, calcResult >>
saveVars == << files, openHandles, failedWrite, saveStage, saveCtx >>
runAux == << atRun, optRunArgs >>

----------------------------------------------------------------------------
\* Bounds of the model.

\* Iteration cap of the optimizer (its "iteration-count limit").
MaxIter == 2
\* At most this many fragments are defined before run().
MaxFragments == 2
\* Number of atoms of the structure.
NAtoms == 2
\* Number of distinct results the calculator may return for one evaluation.
NData == 2
\* Resolution of the modelled floats: FineUnits model units make up 1e-10,
\* the last decimal place the summary table prints.
FineUnits == 2
\* Thresholds of the convergence criteria, in model units.
ForceThreshold == 3
TorqueThreshold == 4
DisplacementThreshold == 1

----------------------------------------------------------------------------
\* Strings, as sequences of characters, and str.lower().

UpperCase == << "A","B","C","D","E","F","G","H","I","J","K","L","M",
                "N","O","P","Q","R","S","T","U","V","W","X","Y","Z" >>
LowerCase == << "a","b","c","d","e","f","g","h","i","j","k","l","m",
                "n","o","p","q","r","s","t","u","v","w","x","y","z" >>

LowerChar(c) ==
    IF \E k \in 1..26 : UpperCase[k] = c
    THEN LowerCase[CHOOSE k \in 1..26 : UpperCase[k] = c]
    ELSE c

Lower(s) == [i \in 1..Len(s) |-> LowerChar(s[i])]

\* The literals the ladders of the setters compare with.
Str_vasp == << "v","a","s","p" >>
Str_gdwas == << "g","d","w","a","s" >>
Str_gd == << "g","d" >>
Str_gpr == << "g","p","r" >>
Str_criterion_displacement ==
    << "c","r","i","t","e","r","i","o","n","_",
       "d","i","s","p","l","a","c","e","m","e","n","t" >>
Str_criterion_force_torque ==
    << "c","r","i","t","e","r","i","o","n","_",
       "f","o","r","c","e","_","t","o","r","q","u","e" >>
\* The literals run() passes for the defaults.
Str_GDWAS == << "G","D","W","A","S" >>
Str_Criterion_Force_Torque ==
    << "C","r","i","t","e","r","i","o","n","_",
       "F","o","r","c","e","_","T","o","r","q","u","e" >>

\* Names a user may hand to a setter.
UserNames ==
    { Str_vasp, << "V","A","S","P" >>, << "e","m","t" >>,
      Str_GDWAS, Str_gd, << "G","p","r" >>, << "b","f","g","s" >>,
      Str_Criterion_Force_Torque, Str_criterion_displacement, << >> }

\* An argument of a setter: a string (isinstance(x, str)) or a ready-made object.
StrArg(s) == [kind |-> "str", str |-> s, obj |-> "-"]
ObjArg(o) == [kind |-> "obj", str |-> << >>, obj |-> o]

CalculatorArgs == {StrArg(s) : s \in UserNames}
                      \cup {ObjArg("UserCalculator"), ObjArg("None")}
OptimizerArgs == {StrArg(s) : s \in UserNames}
                     \cup {ObjArg("UserOptimizer"), ObjArg("None")}
CriterionArgs == {StrArg(s) : s \in UserNames}
                     \cup {ObjArg("UserCriterion"), ObjArg("None")}

----------------------------------------------------------------------------
\* The stdout redirection every public method is decorated with: what the
\* method prints is appended to out_file, whose tail is then that method's.
redirect_stdout_to_file(log, method) == method

\* An exception leaves the API call that is in progress at top level (the
\* setters and the configuration check of run()): the session stays usable.
RaiseAtTopLevel(kind) ==
    /\ raised' = kind
    /\ pc' = "idle"

----------------------------------------------------------------------------
\* RIIGID.define_fragment_by_indices
define_fragment_by_indices ==
    /\ pc = "idle"
    /\ nFragments < MaxFragments
    /\ nFragments' = nFragments + 1
    /\ out_log' = redirect_stdout_to_file(out_log, "define_fragment_by_indices")
    /\ lastCall' = [op |-> "define_fragment_by_indices", arg |-> ObjArg("indices")]
    /\ raised' = "none"
    /\ UNCHANGED << config, pc, runVars, saveVars, runAux >>

\* The body of set_calculator: the new value of self.calculator and the
\* exception the call ends with.
SetCalculatorResult(arg) ==
    IF arg.kind = "str"
    THEN IF Lower(arg.str) = Str_vasp
         THEN [value |-> "Vasp", exc |-> "none", assigned |-> TRUE]
         ELSE [value |-> "None", exc |-> "ConfigurationError", assigned |-> FALSE]
    ELSE IF arg.obj = "None"
         \* self.calculator = None, then None.parameters is read
         THEN [value |-> "None", exc |-> "AttributeError", assigned |-> TRUE]
         ELSE [value |-> arg.obj, exc |-> "none", assigned |-> TRUE]

\* RIIGID.set_calculator
set_calculator(arg) ==
    LET r == SetCalculatorResult(arg) IN
    /\ pc = "idle"
    /\ calculator' = IF r.assigned THEN r.value ELSE calculator
    /\ out_log' = redirect_stdout_to_file(out_log, "set_calculator")
    /\ lastCall' = [op |-> "set_calculator", arg |-> arg]
    /\ RaiseAtTopLevel(r.exc)
    /\ UNCHANGED << optimizer, convergence_criterion, nFragments,
                    runVars, saveVars, runAux >>

\* set_optimizer with a ladder that falls back to GDWAS instead of raising.
Mut_SetOptimizerResult(arg) ==
    IF arg.kind = "str"
    THEN IF Lower(arg.str) = Str_gd
         THEN [value |-> "GD", exc |-> "none", assigned |-> TRUE]
         ELSE IF Lower(arg.str) = Str_gpr
         THEN [value |-> "GPR", exc |-> "none", assigned |-> TRUE]
         ELSE [value |-> "GDWAS", exc |-> "none", assigned |-> TRUE]
    ELSE [value |-> arg.obj, exc |-> "none", assigned |-> TRUE]

\* The ladder of set_optimizer.
SetOptimizerResult(arg) ==
    IF arg.kind = "str"
    THEN IF Lower(arg.str) = Str_gdwas
         THEN [value |-> "GDWAS", exc |-> "none", assigned |-> TRUE]
         ELSE IF Lower(arg.str) = Str_gd
         THEN [value |-> "GD", exc |-> "none", assigned |-> TRUE]
         ELSE IF Lower(arg.str) = Str_gpr
         THEN [value |-> "GPR", exc |-> "none", assigned |-> TRUE]
         ELSE [value |-> "None", exc |-> "ConfigurationError", assigned |-> FALSE]
    ELSE [value |-> arg.obj, exc |-> "none", assigned |-> TRUE]

\* RIIGID.set_optimizer
set_optimizer(arg) ==
    LET r == SetOptimizerResult(arg) IN
    /\ pc = "idle"
    /\ optimizer' = IF r.assigned THEN r.value ELSE optimizer
    /\ out_log' = redirect_stdout_to_file(out_log, "set_optimizer")
    /\ lastCall' = [op |-> "set_optimizer", arg |-> arg]
    /\ RaiseAtTopLevel(r.exc)
    /\ UNCHANGED << calculator, convergence_criterion, nFragments,
                    runVars, saveVars, runAux >>

\* The ladder of set_convergence_criterion.
SetCriterionResult(arg) ==
    IF arg.kind = "str"
    THEN IF Lower(arg.str) = Str_criterion_displacement
         THEN [value |-> "Criterion_Displacement", exc |-> "none", assigned |-> TRUE]
         ELSE IF Lower(arg.str) = Str_criterion_force_torque
         THEN [value |-> "Criterion_Force_Torque", exc |-> "none", assigned |-> TRUE]
         ELSE [value |-> "None", exc |-> "ConfigurationError", assigned |-> FALSE]
    ELSE [value |-> arg.obj, exc |-> "none", assigned |-> TRUE]

\* RIIGID.set_convergence_criterion
set_convergence_criterion(arg) ==
    LET r == SetCriterionResult(arg) IN
    /\ pc = "idle"
    /\ convergence_criterion' = IF r.assigned THEN r.value ELSE convergence_criterion
    /\ out_log' = redirect_stdout_to_file(out_log, "set_convergence_criterion")
    /\ lastCall' = [op |-> "set_convergence_criterion", arg |-> arg]
    /\ RaiseAtTopLevel(r.exc)
    /\ UNCHANGED << calculator, optimizer, nFragments,
                    runVars, saveVars, runAux >>

----------------------------------------------------------------------------
\* The data of one optimization step.  Vectors are triples of integers in
\* model units; np.linalg.norm is the (rounded-down) square root.

Dot(v) == v[1] * v[1] + v[2] * v[2] + v[3] * v[3]

ISqrt(n) == CHOOSE r \in 0..n : r * r <= n /\ n < (r + 1) * (r + 1)

\* np.linalg.norm(v)
Norm(v) == ISqrt(Dot(v))

\* [np.linalg.norm(f) for f in list]
Norms(list) == [i \in 1..Len(list) |-> Norm(list[i])]

\* What the calculator and the aggregation deliver for one evaluation: the
\* d-th possible result, for a structure of n fragments.
Pick(base, i) == base[((i - 1) % Len(base)) + 1]

CalcEnergy(d) == 3 - 4 * d

CalcForcesOnAtoms(d) ==
    LET base == IF d % 2 = 1
                THEN << << 1, 0, 0 >>, << -3, -3, -3 >>, << 0, 0, 0 >> >>
                ELSE << << 2, -2, 1 >>, << 0, -2, 0 >>, << -3, 0, 0 >> >>
    IN [i \in 1..NAtoms |-> Pick(base, i)]

AggForcesRaw(d, n) ==
    LET base == IF d % 2 = 1
                THEN << << 2, -2, 1 >>, << -3, 0, 0 >>, << 1, 0, 0 >> >>
                ELSE << << 3, 3, 1 >>, << -3, -3, -3 >>, << 0, 0, 0 >> >>
    IN [i \in 1..n |-> Pick(base, i)]

AggForcesAllowed(d, n) ==
    LET base == IF d % 2 = 1
                THEN << << 1, 0, 0 >>, << 0, -2, 0 >>, << 1, 1, 0 >> >>
                ELSE << << 3, 3, 1 >>, << 2, -2, 1 >>, << -3, -3, -3 >> >>
    IN [i \in 1..n |-> Pick(base, i)]

AggTorquesRaw(d, n) ==
    LET base == IF d % 2 = 1
                THEN << << 0, -2, 0 >>, << 3, 3, 1 >>, << 1, 1, 0 >> >>
                ELSE << << 1, 0, 0 >>, << 0, 0, 0 >>, << 2, -2, 1 >> >>
    IN [i \in 1..n |-> Pick(base, i)]

AggTorquesAllowed(d, n) ==
    LET base == IF d % 2 = 1
                THEN << << 0, 0, 0 >>, << 1, 1, 0 >>, << 1, 0, 0 >> >>
                ELSE << << -3, 0, 0 >>, << -3, -3, -3 >>, << 0, -2, 0 >> >>
    IN [i \in 1..n |-> Pick(base, i)]

RECURSIVE SumSeq(_)
SumSeq(s) == IF s = << >> THEN 0 ELSE Head(s) + SumSeq(Tail(s))

\* The rigid motion update, reduced to one coordinate: every fragment is
\* displaced along its allowed force, by half its magnitude.
Move(atoms, forces_allowed) ==
    atoms + SumSeq([i \in 1..Len(forces_allowed) |-> Norm(forces_allowed[i]) \div 2])

\* One OptimizationStep.
OptimizationStep(d, n, atoms) ==
    [ energy          |-> CalcEnergy(d),
      forces_on_atoms |-> CalcForcesOnAtoms(d),
      forces_raw      |-> AggForcesRaw(d, n),
      forces_allowed  |-> AggForcesAllowed(d, n),
      torques_raw     |-> AggTorquesRaw(d, n),
      torques_allowed |-> AggTorquesAllowed(d, n),
      atoms           |-> atoms ]

\* The structure the optimizer starts from.
InitialAtoms == 0

----------------------------------------------------------------------------
\* Convergence criteria.

Last(s) == s[Len(s)]

\* Criterion_Force_Torque: the last step's allowed forces and torques are all
\* below their thresholds.
ForceTorqueConverged(history) ==
    /\ history # << >>
    /\ \A i \in 1..Len(Last(history).forces_allowed) :
           Norm(Last(history).forces_allowed[i]) < ForceThreshold
    /\ \A i \in 1..Len(Last(history).torques_allowed) :
           Norm(Last(history).torques_allowed[i]) < TorqueThreshold

Abs(x) == IF x < 0 THEN -x ELSE x

\* Criterion_Displacement: the displacement between the two most recent steps
\* is below the threshold.
DisplacementConverged(history) ==
    /\ Len(history) >= 2
    /\ Abs(history[Len(history)].atoms - history[Len(history) - 1].atoms)
           < DisplacementThreshold

\* What the active criterion may answer; a ready-made criterion object of the
\* user is an arbitrary predicate.
CriterionOutcomes(criterion, history) ==
    IF criterion = "Criterion_Force_Torque" THEN {ForceTorqueConverged(history)}
    ELSE IF criterion = "Criterion_Displacement" THEN {DisplacementConverged(history)}
    ELSE BOOLEAN

----------------------------------------------------------------------------
\* Exceptions.  Unwinding is immediate: the action in which an exception is
\* raised also carries it through every frame that does not handle it.

\* run() with a handler that swallows the exception and goes on to the final
\* save.
Mut_run_on_exception(kind) ==
    /\ pc' = "save"
    /\ saveCtx' = "final"
    /\ saveStage' = 1
    /\ raised' = raised

\* RIIGID.run has no handler around optimizer.run(...) and the final
\* save_optimization_progress(): an exception reaching it ends run().
run_on_exception(kind) ==
    /\ pc' = "raised"
    /\ raised' = kind
    /\ UNCHANGED << saveStage, saveCtx >>

\* The optimizer on a calculator failure: FAILED, and the failure is surfaced.
Optimizer_on_calculator_failure ==
    /\ optState' = "FAILED"
    /\ run_on_exception("CalculatorFailure")

\* The optimizer on an exception of the checkpoint callback: not handled.
Optimizer_on_callback_exception(kind) ==
    /\ optState' = optState
    /\ run_on_exception(kind)

\* A writer returned: the next writer, or the return to the caller.
save_optimization_progress_next ==
    /\ raised' = raised
    /\ saveCtx' = saveCtx
    /\ optState' = optState
    /\ IF saveStage < 4
       THEN /\ saveStage' = saveStage + 1
            /\ pc' = pc
       ELSE /\ saveStage' = 1
            /\ pc' = IF saveCtx = "callback" THEN "callback_done" ELSE "final_done"

\* save_optimization_progress with a handler around each writer that swallows
\* the exception and goes on with the next writer.
Mut_save_optimization_progress_on_exception(kind) ==
    save_optimization_progress_next

\* save_optimization_progress calls the four writers in a row with no
\* handler: an exception of a writer skips the remaining ones and reaches the
\* caller, the optimizer (callback) or run() (final save).
save_optimization_progress_on_exception(kind) ==
    IF saveCtx = "callback"
    THEN Optimizer_on_callback_exception(kind)
    ELSE /\ optState' = optState
         /\ run_on_exception(kind)

NoFailedWrite == [writer |-> "none", ctx |-> "none", kind |-> "none", hist |-> << >>]

FailedWrite(writer, kind) ==
    [writer |-> writer, ctx |-> saveCtx, kind |-> kind, hist |-> optimization_history]

----------------------------------------------------------------------------
\* RIIGID.run, up to the start of the optimizer.

\* run() without its check of the calculator.
Mut_CalculatorMissing(calc) == FALSE

\* "if self.calculator is None"
CalculatorMissing(calc) == calc = "None"

\* run() installing the default optimizer whether or not one was set.
Mut_RunOptimizer(opt) == SetOptimizerResult(StrArg(Str_GDWAS))

\* "if self.optimizer is None: self.set_optimizer(optimizer="GDWAS", ...)"
RunOptimizer(opt) ==
    IF opt = "None"
    THEN SetOptimizerResult(StrArg(Str_GDWAS))
    ELSE [value |-> opt, exc |-> "none", assigned |-> FALSE]

\* "if self.convergence_criterion is None: self.set_convergence_criterion(...)"
RunCriterion(crit) ==
    IF crit = "None"
    THEN SetCriterionResult(StrArg(Str_Criterion_Force_Torque))
    ELSE [value |-> crit, exc |-> "none", assigned |-> FALSE]

run ==
    LET o == RunOptimizer(optimizer)
        c == RunCriterion(convergence_criterion)
    IN
    /\ pc = "idle"
    /\ lastCall' = [op |-> "run", arg |-> ObjArg("-")]
    /\ out_log' = redirect_stdout_to_file(out_log, "run")
    /\ UNCHANGED << calculator, nFragments, files, openHandles, failedWrite,
                    saveStage, saveCtx, iteration, calcCalls, calcResult >>
    /\ IF CalculatorMissing(calculator)
       THEN /\ RaiseAtTopLevel("ConfigurationError")
            /\ UNCHANGED << optimizer, convergence_criterion, optRunArgs, atRun,
                            optState, optimization_history >>
       ELSE IF o.exc # "none"
       THEN /\ RaiseAtTopLevel(o.exc)
            /\ UNCHANGED << optimizer, convergence_criterion, optRunArgs, atRun,
                            optState, optimization_history >>
       ELSE IF c.exc # "none"
       THEN /\ RaiseAtTopLevel(c.exc)
            /\ optimizer' = o.value
            /\ UNCHANGED << convergence_criterion, optRunArgs, atRun,
                            optState, optimization_history >>
       ELSE /\ atRun' = [optimizer |-> optimizer, criterion |-> convergence_criterion]
            /\ optimizer' = o.value
            /\ convergence_criterion' = c.value
            /\ optRunArgs' = [ optimizer |-> o.value, calculator |-> calculator,
                               criterion |-> c.value ]
            /\ optState' = "INIT"
            /\ optimization_history' = << >>
            /\ raised' = "none"
            /\ pc' = "opt_init"

----------------------------------------------------------------------------
\* The optimizer's state machine (optimizer.run).

\* What one calculator invocation may deliver: a failure (0) or the d-th result.
CalcFails == 0
CalcOutcomes == {CalcFails} \cup (1..NData)

\* INIT -> ITERATING: evaluate the initial structure, aggregate, append step 0.
OptimizerInit ==
    /\ pc = "opt_init"
    /\ calcCalls' = calcCalls + 1
    /\ UNCHANGED << config, nFragments, out_log, lastCall, runAux, iteration,
                    files, openHandles, failedWrite >>
    /\ \E res \in CalcOutcomes :
         IF res = CalcFails
         THEN /\ calcResult' = "fail"
              /\ Optimizer_on_calculator_failure
              /\ UNCHANGED optimization_history
         ELSE /\ calcResult' = "ok"
              /\ optimization_history' =
                     << OptimizationStep(res, nFragments, InitialAtoms) >>
              /\ optState' = "ITERATING"
              /\ pc' = "opt_iter"
              /\ UNCHANGED << raised, saveStage, saveCtx >>

\* One ITERATING cycle: (1) calculator, (2) aggregation, (3) criterion,
\* (4) motion update, (5) append, (6) checkpoint callback.
OptimizerIterate ==
    /\ pc = "opt_iter"
    /\ calcCalls' = calcCalls + 1
    /\ UNCHANGED << config, nFragments, out_log, lastCall, runAux,
                    files, openHandles, failedWrite >>
    /\ \E res \in CalcOutcomes :
         IF res = CalcFails
         THEN /\ calcResult' = "fail"
              /\ Optimizer_on_calculator_failure
              /\ UNCHANGED << optimization_history, iteration >>
         ELSE /\ calcResult' = "ok"
              /\ \E converged \in CriterionOutcomes(optRunArgs.criterion,
                                                    optimization_history) :
                   IF converged
                   THEN /\ optState' = "CONVERGED"
                        /\ pc' = "opt_returned"
                        /\ UNCHANGED << optimization_history, iteration,
                                        raised, saveStage, saveCtx >>
                   ELSE /\ optimization_history' =
                               Append(optimization_history,
                                      OptimizationStep(res, nFragments,
                                          Move(Last(optimization_history).atoms,
                                               AggForcesAllowed(res, nFragments))))
                        /\ iteration' = iteration + 1
                        /\ optState' = optState
                        /\ pc' = "save"
                        /\ saveCtx' = "callback"
                        /\ saveStage' = 1
                        /\ UNCHANGED raised

\* (7) after the callback: the iteration limit.
OptimizerAfterCallback ==
    /\ pc = "callback_done"
    /\ IF iteration >= MaxIter
       THEN /\ optState' = "MAX_ITERATIONS"
            /\ pc' = "opt_returned"
       ELSE /\ optState' = optState
            /\ pc' = "opt_iter"
    /\ UNCHANGED << config, nFragments, out_log, lastCall, runAux, raised,
                    optimization_history, iteration, calcCalls, calcResult,
                    saveVars >>

\* RIIGID.run after optimizer.run returned: "self.save_optimization_progress()"
run_final_save ==
    /\ pc = "opt_returned"
    /\ pc' = "save"
    /\ saveCtx' = "final"
    /\ saveStage' = 1
    /\ UNCHANGED << config, nFragments, out_log, lastCall, runAux, raised,
                    runVars, files, openHandles, failedWrite >>

\* RIIGID.run after the final save: the duration and the closing banner.
run_finish ==
    /\ pc = "final_done"
    /\ pc' = "returned"
    /\ out_log' = redirect_stdout_to_file(out_log, "run")
    /\ UNCHANGED << config, nFragments, lastCall, runAux, raised,
                    runVars, saveVars >>

----------------------------------------------------------------------------
\* The artifacts.

Absent == [state |-> "absent", content |-> << >>]
Partial(c) == [state |-> "partial", content |-> c]
Complete(c) == [state |-> "complete", content |-> c]

SaveFrame ==
    UNCHANGED << config, nFragments, out_log, lastCall, runAux,
                 iteration, calcCalls, calcResult >>

\* RIIGID.save_optimization_history: open, pickle.dump, close.
save_optimization_history ==
    /\ pc = "save"
    /\ saveStage = 1
    /\ SaveFrame
    /\ UNCHANGED optimization_history
    /\ \E outcome \in {"ok", "open_fails", "write_fails"} :
         IF outcome = "ok"
         THEN /\ files' = [files EXCEPT !.hist = Complete(optimization_history)]
              /\ UNCHANGED << openHandles, failedWrite >>
              /\ save_optimization_progress_next
         ELSE IF outcome = "open_fails"
         THEN /\ UNCHANGED << files, openHandles >>
              /\ failedWrite' = FailedWrite("save_optimization_history",
                                            "PersistenceFailure")
              /\ save_optimization_progress_on_exception("PersistenceFailure")
         ELSE \* open(fn, "wb") truncated the file; f.close() is not reached
              /\ files' = [files EXCEPT !.hist = Partial(<< >>)]
              /\ openHandles' = openHandles \cup {"opt_hist_file"}
              /\ failedWrite' = FailedWrite("save_optimization_history",
                                            "PersistenceFailure")
              /\ save_optimization_progress_on_exception("PersistenceFailure")

\* One frame of the trajectory: traj.write(atoms=..., energy=...)
Frame(step) == [atoms |-> step.atoms, energy |-> step.energy]

Frames(history) == [i \in 1..Len(history) |-> Frame(history[i])]

\* RIIGID.create_trajectory_file_from_optimization_history:
\* Trajectory(fn, "w"), one write per step, close.
create_trajectory_file_from_optimization_history ==
    /\ pc = "save"
    /\ saveStage = 2
    /\ SaveFrame
    /\ UNCHANGED optimization_history
    /\ \/ /\ files' = [files EXCEPT !.traj = Complete(Frames(optimization_history))]
          /\ UNCHANGED << openHandles, failedWrite >>
          /\ save_optimization_progress_next
       \/ \* Trajectory(fn, "w") fails
          /\ UNCHANGED << files, openHandles >>
          /\ failedWrite' = FailedWrite("create_trajectory_file", "PersistenceFailure")
          /\ save_optimization_progress_on_exception("PersistenceFailure")
       \/ \* a traj.write fails after k frames; traj.close() is not reached
          \E k \in 0..(Len(optimization_history) - 1) :
             /\ files' = [files EXCEPT
                            !.traj = Partial(SubSeq(Frames(optimization_history), 1, k))]
             /\ openHandles' = openHandles \cup {"traj_file"}
             /\ failedWrite' = FailedWrite("create_trajectory_file", "PersistenceFailure")
             /\ save_optimization_progress_on_exception("PersistenceFailure")

\* save_final_geometry taking the last step off the history
\* (optimization_history.pop() for optimization_history[-1]).
Mut_save_final_geometry ==
    /\ pc = "save"
    /\ saveStage = 3
    /\ SaveFrame
    /\ UNCHANGED << openHandles, failedWrite >>
    /\ optimization_history # << >>
    /\ files' = [files EXCEPT
                   !.final = Complete(<< Last(optimization_history).atoms >>)]
    /\ optimization_history' =
           SubSeq(optimization_history, 1, Len(optimization_history) - 1)
    /\ save_optimization_progress_next

\* RIIGID.save_final_geometry: ase_write of optimization_history[-1]; the file
\* is opened and closed inside ase_write.
save_final_geometry ==
    /\ pc = "save"
    /\ saveStage = 3
    /\ SaveFrame
    /\ UNCHANGED << optimization_history, openHandles >>
    /\ IF optimization_history = << >>
       THEN \* optimization_history[-1] of an empty list
            /\ UNCHANGED files
            /\ failedWrite' = FailedWrite("save_final_geometry", "IndexError")
            /\ save_optimization_progress_on_exception("IndexError")
       ELSE \/ /\ files' = [files EXCEPT
                              !.final = Complete(<< Last(optimization_history).atoms >>)]
               /\ UNCHANGED failedWrite
               /\ save_optimization_progress_next
            \/ /\ files' = [files EXCEPT !.final = Partial(<< >>)]
               /\ failedWrite' = FailedWrite("save_final_geometry", "PersistenceFailure")
               /\ save_optimization_progress_on_exception("PersistenceFailure")

\* np.max(list), for a non-empty list
RECURSIVE np_max(_)
np_max(xs) ==
    IF Len(xs) = 1 THEN xs[1]
    ELSE LET m == np_max(Tail(xs)) IN IF xs[1] >= m THEN xs[1] ELSE m

\* np.argmax(list): the first position (from 0) of the maximum
np_argmax(xs) ==
    (CHOOSE i \in 1..Len(xs) :
        /\ xs[i] = np_max(xs)
        /\ \A j \in 1..(i - 1) : xs[j] # np_max(xs)) - 1

\* The format "{x:.10f}": x rounded to the tenth decimal place, that is from
\* model units to units of 1e-10.
Fmt10(x) == (x + FineUnits \div 2) \div FineUnits

\* A data row whose raw-force index is taken from the allowed forces.
Mut_SummaryRow(i, step) ==
    [ iteration           |-> i,
      energy              |-> Fmt10(step.energy),
      fmax_frags_raw      |-> Fmt10(np_max(Norms(step.forces_raw))),
      ifmax_frags_raw     |-> np_argmax(Norms(step.forces_allowed)),
      fmax_frags_allowed  |-> Fmt10(np_max(Norms(step.forces_allowed))),
      ifmax_frags_allowed |-> np_argmax(Norms(step.forces_allowed)),
      tmax_frags_raw      |-> Fmt10(np_max(Norms(step.torques_raw))),
      itmax_frags_raw     |-> np_argmax(Norms(step.torques_raw)),
      tmax_frags_allowed  |-> Fmt10(np_max(Norms(step.torques_allowed))),
      itmax_frags_allowed |-> np_argmax(Norms(step.torques_allowed)),
      fmax_atoms          |-> Fmt10(np_max(Norms(step.forces_on_atoms))),
      ifmax_atoms         |-> np_argmax(Norms(step.forces_on_atoms)) ]

\* One data row of the summary table.
SummaryRow(i, step) ==
    [ iteration           |-> i,
      energy              |-> Fmt10(step.energy),
      fmax_frags_raw      |-> Fmt10(np_max(Norms(step.forces_raw))),
      ifmax_frags_raw     |-> np_argmax(Norms(step.forces_raw)),
      fmax_frags_allowed  |-> Fmt10(np_max(Norms(step.forces_allowed))),
      ifmax_frags_allowed |-> np_argmax(Norms(step.forces_allowed)),
      tmax_frags_raw      |-> Fmt10(np_max(Norms(step.torques_raw))),
      itmax_frags_raw     |-> np_argmax(Norms(step.torques_raw)),
      tmax_frags_allowed  |-> Fmt10(np_max(Norms(step.torques_allowed))),
      itmax_frags_allowed |-> np_argmax(Norms(step.torques_allowed)),
      fmax_atoms          |-> Fmt10(np_max(Norms(step.forces_on_atoms))),
      ifmax_atoms         |-> np_argmax(Norms(step.forces_on_atoms)) ]

\* "for iteration, step in enumerate(optimization_history)", the first k rows
SummaryRows(history, k) == [i \in 1..k |-> SummaryRow(i - 1, history[i])]

\* np.max of an empty list raises ValueError.
RowComputable(step) ==
    /\ step.forces_allowed # << >>
    /\ step.forces_raw # << >>
    /\ step.torques_allowed # << >>
    /\ step.torques_raw # << >>
    /\ step.forces_on_atoms # << >>

\* The rows written before the first one that cannot be computed.
ComputableRows(history) ==
    IF \A i \in 1..Len(history) : RowComputable(history[i])
    THEN Len(history)
    ELSE (CHOOSE i \in 1..Len(history) :
             /\ ~RowComputable(history[i])
             /\ \A j \in 1..(i - 1) : RowComputable(history[j])) - 1

\* RIIGID.save_optimization_summary: "with open(fn, "w") as file", the header
\* and one row per step.
save_optimization_summary ==
    /\ pc = "save"
    /\ saveStage = 4
    /\ SaveFrame
    /\ UNCHANGED << optimization_history, openHandles >>
    /\ \/ \* open fails
          /\ UNCHANGED files
          /\ failedWrite' = FailedWrite("save_optimization_summary", "PersistenceFailure")
          /\ save_optimization_progress_on_exception("PersistenceFailure")
       \/ \* a file.write fails after k rows; the with statement closes the file
          \E k \in 0..ComputableRows(optimization_history) :
             /\ k < Len(optimization_history) \/ k = 0
             /\ files' = [files EXCEPT
                            !.summary = Partial(SummaryRows(optimization_history, k))]
             /\ failedWrite' = FailedWrite("save_optimization_summary",
                                           "PersistenceFailure")
             /\ save_optimization_progress_on_exception("PersistenceFailure")
       \/ \* no write fails
          LET k == ComputableRows(optimization_history) IN
          IF k < Len(optimization_history)
          THEN /\ files' = [files EXCEPT
                              !.summary = Partial(SummaryRows(optimization_history, k))]
               /\ failedWrite' = FailedWrite("save_optimization_summary", "ValueError")
               /\ save_optimization_progress_on_exception("ValueError")
          ELSE /\ files' = [files EXCEPT
                              !.summary = Complete(SummaryRows(optimization_history, k))]
               /\ UNCHANGED failedWrite
               /\ save_optimization_progress_next

----------------------------------------------------------------------------
\* The session after RIIGID.__init__: nothing configured, the banner printed.
Init ==
    /\ calculator = "None"
    /\ optimizer = "None"
    /\ convergence_criterion = "None"
    /\ nFragments = 0
    /\ out_log = "__init__"
    /\ pc = "idle"
    /\ saveStage = 1
    /\ saveCtx = "none"
    /\ optState = "INIT"
    /\ optimization_history = << >>
    /\ iteration = 0
    /\ calcCalls = 0
    /\ files = [hist |-> Absent, traj |-> Absent, final |-> Absent, summary |-> Absent]
    /\ openHandles = {}
    /\ raised = "none"
    /\ lastCall = [op |-> "__init__", arg |-> ObjArg("atoms")]
    /\ atRun = [optimizer |-> "None", criterion |-> "None"]
    /\ optRunArgs = [optimizer |-> "None", calculator |-> "None", criterion |-> "None"]
    /\ calcResult = "none"
    /\ failedWrite = NoFailedWrite

Next ==
    \/ define_fragment_by_indices
    \/ \E arg \in CalculatorArgs : set_calculator(arg)
    \/ \E arg \in OptimizerArgs : set_optimizer(arg)
    \/ \E arg \in CriterionArgs : set_convergence_criterion(arg)
    \/ run
    \/ OptimizerInit
    \/ OptimizerIterate
    \/ OptimizerAfterCallback
    \/ run_final_save
    \/ run_finish
    \/ save_optimization_history
    \/ create_trajectory_file_from_optimization_history
    \/ save_final_geometry
    \/ save_optimization_summary

Spec == Init /\ [][Next]_vars

----------------------------------------------------------------------------
\* Properties.

IsPrefix(s, t) == Len(s) <= Len(t) /\ SubSeq(t, 1, Len(s)) = s

\* A step that is a call of run() by the user.
RunCall == pc = "idle" /\ lastCall'.op = "run"

Setters == {"set_calculator", "set_optimizer", "set_convergence_criterion"}

\* A step that is a call of a setter by the user; its argument is lastCall'.arg.
SetterCall == pc = "idle" /\ lastCall'.op \in Setters

\* The names each setter documents as recognized, compared without case.
RecognizedNames(op) ==
    IF op = "set_calculator" THEN {Str_vasp}
    ELSE IF op = "set_optimizer" THEN {Str_gdwas, Str_gd, Str_gpr}
    ELSE {Str_criterion_displacement, Str_criterion_force_torque}

NothingRun ==
    /\ calcCalls' = calcCalls
    /\ calcCalls' = 0
    /\ optState' = optState
    /\ optimization_history' = optimization_history
    /\ files' = files
    /\ openHandles' = openHandles

\* C1, as claimed: run() without a calculator raises a configuration error
\* at once, before any calculator call, and writes no file at all: none of
\* the four artifacts and no other file, the log out_file included.
C1_NoFileAtAll ==
    [][ (RunCall /\ calculator = "None")
          => /\ raised' = "ConfigurationError"
             /\ pc' = "idle"
             /\ NothingRun
             /\ out_log' = out_log ]_vars

\* C1, amended: run() without a calculator raises a configuration error at
\* once, before any calculator call and without setting a default optimizer or
\* criterion, and writes none of the four artifacts (history snapshot,
\* trajectory, final geometry, summary); the one file it writes to is the log
\* out_file, which receives what run() prints before the check.
C1_NoCalculatorRaises ==
    [][ (RunCall /\ calculator = "None")
          => /\ raised' = "ConfigurationError"
             /\ pc' = "idle"
             /\ NothingRun
             /\ config' = config
             /\ out_log' = "run" ]_vars

C1_Witness ==
    /\ lastCall.op = "run"
    /\ raised = "ConfigurationError"
    /\ calculator = "None"
    /\ pc = "idle"
    /\ files.hist = Absent /\ files.summary = Absent

\* C2: a setter called with a string that is not one of its recognized names
\* raises a configuration error in that call, whatever setters were called
\* before; no calculator invocation has occurred, the configuration is as it
\* was and nothing of a run has happened.
C2_UnknownNameRaises ==
    [][ ( /\ SetterCall
          /\ lastCall'.arg.kind = "str"
          /\ Lower(lastCall'.arg.str) \notin RecognizedNames(lastCall'.op) )
          => /\ raised' = "ConfigurationError"
             /\ pc' = "idle"
             /\ config' = config
             /\ NothingRun ]_vars

C2_Witness ==
    /\ lastCall.op = "set_optimizer"
    /\ lastCall.arg.kind = "str"
    /\ Lower(lastCall.arg.str) \notin RecognizedNames("set_optimizer")
    /\ raised = "ConfigurationError"
    /\ calculator = "Vasp"
    /\ convergence_criterion = "Criterion_Displacement"

\* C3: a calculator failure, at the initial evaluation or at a later one,
\* puts the optimizer in FAILED and ends run() with that failure; the history
\* is the one before the failing evaluation, no artifact is written, and once
\* FAILED nothing is retried: no calculator call, no append, no save.
C3_CalculatorFailureAborts ==
    [][ /\ (calcCalls' = calcCalls + 1 /\ calcResult' = "fail")
           => /\ optState' = "FAILED"
              /\ pc' = "raised"
              /\ raised' = "CalculatorFailure"
              /\ optimization_history' = optimization_history
              /\ files' = files
        /\ optState = "FAILED"
           => /\ pc = "raised"
              /\ calcCalls' = calcCalls
              /\ optimization_history' = optimization_history
              /\ files' = files ]_vars

C3_Witness ==
    /\ optState = "FAILED"
    /\ pc = "raised"
    /\ raised = "CalculatorFailure"
    /\ Len(optimization_history) = 2
    /\ calcCalls = 3

\* C4: the history is append-only.  Every step leaves the old history a prefix
\* of the new one and adds at most one step; a step is added exactly by an
\* evaluation that succeeded without convergence; the length is the number of
\* completed iterations plus step 0; and the history a checkpoint saw (the
\* snapshot and the trajectory on disk) is a prefix of the history now.
C4_HistoryAppendOnly ==
    [][ /\ IsPrefix(optimization_history, optimization_history')
        /\ Len(optimization_history') <= Len(optimization_history) + 1
        /\ (Len(optimization_history') = Len(optimization_history) + 1)
              <=> ( /\ calcCalls' = calcCalls + 1
                    /\ calcResult' = "ok"
                    /\ optState' = "ITERATING" )
        /\ (optState' # "INIT" /\ optState' # "FAILED")
              => Len(optimization_history') = iteration' + 1
        /\ files'.hist.state = "complete"
              => IsPrefix(files'.hist.content, optimization_history')
        /\ files'.traj.state = "complete"
              => IsPrefix(files'.traj.content, Frames(optimization_history')) ]_vars

C4_Witness ==
    /\ Len(optimization_history) = 3
    /\ files.hist.state = "complete"
    /\ Len(files.hist.content) = 2
    /\ pc = "save"
    /\ saveCtx = "callback"

\* C5: after a writer of save_optimization_progress has returned or raised,
\* no handle it opened is still open.
C5_HandlesClosed == openHandles = {}

\* C6: a failed artifact write, in the checkpoint callback or in the final
\* save, ends run() with that failure (it is not swallowed), is not retried
\* (no artifact is written after it) and leaves the history as it was when the
\* write failed.
C6_WriteFailurePropagates ==
    [][ /\ failedWrite'.writer # "none"
           => /\ pc' = "raised"
              /\ raised' = failedWrite'.kind
              /\ optimization_history' = failedWrite'.hist
        /\ failedWrite.writer # "none"
           => /\ files' = files
              /\ failedWrite' = failedWrite
              /\ calcCalls' = calcCalls ]_vars

C6_Witness ==
    /\ failedWrite.writer = "create_trajectory_file"
    /\ failedWrite.ctx = "callback"
    /\ pc = "raised"
    /\ raised = "PersistenceFailure"
    /\ Len(optimization_history) = 2
    /\ files.hist = Complete(optimization_history)

\* The reported maximum val and index idx (from 0) of one list of vectors: idx
\* is a position of the list, no element is larger in magnitude than the one
\* there, and val is that magnitude to ten decimal places.
MaxReported(val, idx, list) ==
    /\ idx + 1 \in 1..Len(list)
    /\ \A j \in 1..Len(list) : Norm(list[j]) <= Norm(list[idx + 1])
    /\ val = Fmt10(Norm(list[idx + 1]))

TableMatches(rows, history) ==
    /\ Len(rows) = Len(history)
    /\ \A i \in 1..Len(rows) :
         /\ rows[i].iteration = i - 1
         /\ rows[i].energy = Fmt10(history[i].energy)
         /\ MaxReported(rows[i].fmax_frags_raw, rows[i].ifmax_frags_raw,
                        history[i].forces_raw)
         /\ MaxReported(rows[i].fmax_frags_allowed, rows[i].ifmax_frags_allowed,
                        history[i].forces_allowed)
         /\ MaxReported(rows[i].tmax_frags_raw, rows[i].itmax_frags_raw,
                        history[i].torques_raw)
         /\ MaxReported(rows[i].tmax_frags_allowed, rows[i].itmax_frags_allowed,
                        history[i].torques_allowed)
         /\ MaxReported(rows[i].fmax_atoms, rows[i].ifmax_atoms,
                        history[i].forces_on_atoms)

\* C7: the summary table the writer completes has one data row per history
\* step, in history order, numbered from 0; in each row every reported
\* maximum is the largest magnitude of its list (to the ten decimal places of
\* the table) and every reported index is a position attaining it.  When
\* run() returns, the table on disk is the one of the final history.
C7_SummaryTable ==
    [][ /\ (pc = "save" /\ saveStage = 4 /\ pc' # "raised")
           => /\ files'.summary.state = "complete"
              /\ TableMatches(files'.summary.content, optimization_history')
        /\ pc' = "returned"
           => /\ files'.summary.state = "complete"
              /\ TableMatches(files'.summary.content, optimization_history') ]_vars

C7_Witness ==
    /\ pc = "returned"
    /\ nFragments = 2
    /\ Len(optimization_history) = 3
    /\ files.summary.state = "complete"
    /\ Len(files.summary.content) = 3
    /\ files.summary.content[1].ifmax_frags_raw
           # files.summary.content[1].ifmax_frags_allowed

\* C8: once run() has started the optimizer, the optimizer and the criterion
\* in use are the ones the user had set, and GDWAS respectively
\* Criterion_Force_Torque where none was set; the calculator is the user's.
C8_DefaultsOnlyWhenUnset ==
    pc # "idle"
       => /\ optRunArgs.optimizer =
                 (IF atRun.optimizer = "None" THEN "GDWAS" ELSE atRun.optimizer)
          /\ optRunArgs.criterion =
                 (IF atRun.criterion = "None" THEN "Criterion_Force_Torque"
                                              ELSE atRun.criterion)
          /\ optimizer = optRunArgs.optimizer
          /\ convergence_criterion = optRunArgs.criterion
          /\ optRunArgs.calculator = calculator
          /\ calculator # "None"

C8_Witness ==
    /\ pc = "opt_init"
    /\ calcCalls = 0
    /\ atRun.optimizer = "None"
    /\ atRun.criterion = "UserCriterion"
    /\ optRunArgs.optimizer = "GDWAS"

TerminalStates == {"CONVERGED", "MAX_ITERATIONS", "FAILED"}

\* run() has ended after it had started the optimizer.
RunEnded == pc \in {"returned", "raised"}

\* The optimizer enters CONVERGED in the step of a calculator call, with no
\* step appended (no motion update), and stays there with no further
\* calculator call and no further step.
ConvergedStops ==
    /\ (optState' = "CONVERGED" /\ optState # "CONVERGED")
          => /\ calcCalls' = calcCalls + 1
             /\ calcResult' = "ok"
             /\ optimization_history' = optimization_history
    /\ optState = "CONVERGED"
          => /\ optState' = "CONVERGED"
             /\ calcCalls' = calcCalls
             /\ optimization_history' = optimization_history

C10_SaveSeesNonEmptyHistory ==
    /\ pc = "save"
         => /\ Len(optimization_history) >= 1
            /\ saveCtx = "callback"
                 => optState = "ITERATING" /\ Len(optimization_history) >= 2
            /\ saveCtx = "final"
                 => optState \in {"CONVERGED", "MAX_ITERATIONS"}
    /\ optState = "FAILED" => pc = "raised"
    /\ failedWrite.kind # "IndexError"

C10_Witness ==
    /\ pc = "save"
    /\ saveCtx = "final"
    /\ saveStage = 3
    /\ optState = "CONVERGED"
    /\ Len(optimization_history) = 1

====
